---- MODULE Spec2Model ----
(***************************************************************************)
(* Model of the Platform48 function toolkit: the request-scoped            *)
(* FunctionContext, its request accessors, its loggers and its response    *)
(* writers.  The repository holds two snapshots of the package: the        *)
(* earlier one in FunctionContext.go (package toolkit) and the later one   *)
(* with stackFrameLevel; `build` says which of them is linked.             *)
(*                                                                         *)
(* Go strings and byte slices are sequences of symbols (one-symbol         *)
(* strings); string concatenation is \o.                                   *)
(***************************************************************************)
EXTENDS Integers, Sequences, FiniteSets, TLC

\* ------------------------------------------------------------------ bounds
\* number of ids shortid hands out, that is of FuncCtx calls, in one run
MaxCalls == 2

\* --------------------------------------------------------- text and bytes
NUL == "NUL"
QUOTE == "\""
BACKSLASH == "\\"
Digits == <<"0", "1", "2", "3", "4", "5", "6", "7", "8", "9">>
DigitSet == {Digits[i] : i \in 1..10}
Space == " "

RECURSIVE Zeros(_)
Zeros(n) == IF n <= 0 THEN <<>> ELSE <<NUL>> \o Zeros(n - 1)

Take(s, n) == SubSeq(s, 1, IF n < Len(s) THEN n ELSE Len(s))
Drop(s, n) == SubSeq(s, n + 1, Len(s))

\* strings.Contains on symbol sequences
Contains(s, sub) ==
    \E i \in 0..(Len(s) - Len(sub)) : SubSeq(s, i + 1, i + Len(sub)) = sub

\* strconv.Itoa / fmt %v of a non-negative int
RECURSIVE Itoa(_)
Itoa(n) == IF n < 10 THEN <<Digits[n + 1]>>
           ELSE Itoa(n \div 10) \o <<Digits[(n % 10) + 1]>>

DigitVal(c) == CHOOSE d \in 0..9 : Digits[d + 1] = c

\* ------------------------------------------------------------ Go values
\* nil interface, int, float64 (what a JSON number decodes to in an `any`),
\* string, map[string]any / toolkit.Json, and a value json.Marshal rejects
\* (a channel, a func).
Nil == [t |-> "nil"]
GoInt(n) == [t |-> "int", n |-> n]
GoFloat(n) == [t |-> "float", n |-> n]
GoStr(s) == [t |-> "string", s |-> s]
GoMap(m) == [t |-> "map", m |-> m]
Chan == [t |-> "chan"]
EmptyMap == [k \in {} |-> Nil]

\* ------------------------------------------------- encoding/json: Marshal
RECURSIVE EscapeString(_)
EscapeString(s) ==
    IF s = <<>> THEN <<>>
    ELSE (IF Head(s) \in {QUOTE, BACKSLASH} THEN <<BACKSLASH, Head(s)>>
          ELSE <<Head(s)>>) \o EscapeString(Tail(s))

QuoteString(s) == <<QUOTE>> \o EscapeString(s) \o <<QUOTE>>

\* keys of a map in the order json.Marshal writes them (sorted)
SymbolOrder == <<"0", "1", "2", "3", "4", "5", "6", "7", "8", "9",
                 "Foo", "Heh", "a", "b", "data", "errorCode", "m",
                 "message", "spanId">>
Rank(c) == IF \E i \in 1..Len(SymbolOrder) : SymbolOrder[i] = c
           THEN CHOOSE i \in 1..Len(SymbolOrder) : SymbolOrder[i] = c
           ELSE 0
RECURSIVE KeyLess(_, _)
KeyLess(a, b) ==
    IF a = <<>> THEN b # <<>>
    ELSE IF b = <<>> THEN FALSE
    ELSE IF Head(a) = Head(b) THEN KeyLess(Tail(a), Tail(b))
    ELSE Rank(Head(a)) < Rank(Head(b))
RECURSIVE SortedKeys(_)
SortedKeys(ks) ==
    IF ks = {} THEN <<>>
    ELSE LET k == CHOOSE x \in ks : \A y \in ks \ {x} : KeyLess(x, y)
         IN <<k>> \o SortedKeys(ks \ {k})

RECURSIVE Marshalable(_)
Marshalable(v) ==
    CASE v.t = "chan" -> FALSE
      [] v.t = "map" -> \A k \in DOMAIN v.m : Marshalable(v.m[k])
      [] OTHER -> TRUE

RECURSIVE Encode(_)
RECURSIVE EncodeMembers(_, _)
EncodeMembers(m, ks) ==
    IF ks = <<>> THEN <<>>
    ELSE QuoteString(Head(ks)) \o <<":">> \o Encode(m[Head(ks)])
         \o (IF Len(ks) > 1 THEN <<",">> ELSE <<>>)
         \o EncodeMembers(m, Tail(ks))
Encode(v) ==
    CASE v.t = "nil" -> <<"null">>
      [] v.t \in {"int", "float"} -> Itoa(v.n)
      [] v.t = "string" -> QuoteString(v.s)
      [] v.t = "map" -> <<"{">> \o EncodeMembers(v.m, SortedKeys(DOMAIN v.m)) \o <<"}">>
      [] OTHER -> <<>>

\* a struct field list: <<name, value, omitempty, Go type>> in declaration
\* order; omitempty drops a nil interface, an empty string, a zero int
RECURSIVE EncodeFields(_, _)
EncodeFields(fs, first) ==
    IF fs = <<>> THEN <<>>
    ELSE LET f == Head(fs)
             skip == f[3] /\ \/ (f[4] = "interface" /\ f[2] = Nil)
                             \/ (f[4] = "string" /\ f[2] = GoStr(<<>>))
                             \/ (f[4] = "int" /\ f[2] = GoInt(0))
         IN IF skip THEN EncodeFields(Tail(fs), first)
            ELSE (IF first THEN <<>> ELSE <<",">>)
                 \o QuoteString(f[1]) \o <<":">> \o Encode(f[2])
                 \o EncodeFields(Tail(fs), FALSE)
MarshalStruct(fs) ==
    IF \A i \in 1..Len(fs) : Marshalable(fs[i][2])
    THEN [err |-> <<>>, bytes |-> <<"{">> \o EncodeFields(fs, TRUE) \o <<"}">>]
    ELSE [err |-> <<"json: unsupported type">>, bytes |-> <<>>]

\* ----------------------------------------------- encoding/json: Unmarshal
Fail == [ok |-> FALSE, v |-> Nil, rest |-> <<>>]

RECURSIVE SkipWS(_)
SkipWS(s) == IF s # <<>> /\ Head(s) = Space THEN SkipWS(Tail(s)) ELSE s

RECURSIVE ScanDigits(_, _)
ScanDigits(s, acc) ==
    IF s # <<>> /\ Head(s) \in DigitSet
    THEN ScanDigits(Tail(s), acc * 10 + DigitVal(Head(s)))
    ELSE [ok |-> TRUE, v |-> GoFloat(acc), rest |-> s]
ScanNumber(s) ==
    IF Head(s) = "0" THEN [ok |-> TRUE, v |-> GoFloat(0), rest |-> Tail(s)]
    ELSE ScanDigits(s, 0)

\* s starts after the opening quote
RECURSIVE ScanString(_, _)
ScanString(s, acc) ==
    IF s = <<>> THEN Fail
    ELSE IF Head(s) = QUOTE THEN [ok |-> TRUE, v |-> GoStr(acc), rest |-> Tail(s)]
    ELSE IF Head(s) = NUL THEN Fail
    ELSE IF Head(s) = BACKSLASH
         THEN IF Len(s) >= 2 /\ s[2] \in {QUOTE, BACKSLASH}
              THEN ScanString(Drop(s, 2), Append(acc, s[2]))
              ELSE Fail
    ELSE ScanString(Tail(s), Append(acc, Head(s)))

RECURSIVE ScanValue(_)
RECURSIVE ScanMembers(_, _)
\* s starts at a key; m holds the members decoded so far (a later duplicate wins)
ScanMembers(s0, m) ==
    LET s == SkipWS(s0) IN
    IF s = <<>> \/ Head(s) # QUOTE THEN Fail
    ELSE LET k == ScanString(Tail(s), <<>>) IN
         IF ~k.ok THEN Fail
         ELSE LET c == SkipWS(k.rest) IN
              IF c = <<>> \/ Head(c) # ":" THEN Fail
              ELSE LET e == ScanValue(Tail(c)) IN
                   IF ~e.ok THEN Fail
                   ELSE LET m2 == [x \in DOMAIN m \cup {k.v.s} |->
                                       IF x = k.v.s THEN e.v ELSE m[x]]
                            r == SkipWS(e.rest)
                        IN IF r = <<>> THEN Fail
                           ELSE IF Head(r) = "}" THEN [ok |-> TRUE, v |-> GoMap(m2), rest |-> Tail(r)]
                           ELSE IF Head(r) = "," THEN ScanMembers(Tail(r), m2)
                           ELSE Fail
ScanValue(s0) ==
    LET s == SkipWS(s0) IN
    IF s = <<>> THEN Fail
    ELSE IF Head(s) = "null" THEN [ok |-> TRUE, v |-> Nil, rest |-> Tail(s)]
    ELSE IF Head(s) \in DigitSet THEN ScanNumber(s)
    ELSE IF Head(s) = QUOTE THEN ScanString(Tail(s), <<>>)
    ELSE IF Head(s) = "{"
         THEN LET r == SkipWS(Tail(s)) IN
              IF r # <<>> /\ Head(r) = "}"
              THEN [ok |-> TRUE, v |-> GoMap(EmptyMap), rest |-> Tail(r)]
              ELSE ScanMembers(r, EmptyMap)
    ELSE Fail

\* json.Unmarshal(data, &target) with target of type any: err is empty on
\* success; the target is only assigned when the whole input is valid.
Unmarshal(data) ==
    LET r == ScanValue(data) IN
    IF r.ok /\ SkipWS(r.rest) = <<>>
    THEN [err |-> <<>>, v |-> r.v]
    ELSE [err |-> <<"json: invalid input">>, v |-> Nil]

\* ------------------------------------------------------------ the package
Builds == {"main", "v1", "v2"}

EnvVars == {"FUNCTION_NAME", "FUNCTION_REGION", "FUNCTION_IDENTITY", "K_SERVICE",
            "K_CONFIGURATION", "GOOGLE_FUNCTION_TARGET", "GOOGLE_CLOUD_PROJECT"}
RECURSIVE SumLen(_, _)
SumLen(e, vs) == IF vs = {} THEN 0
                 ELSE LET v == CHOOSE x \in vs : TRUE
                      IN Len(e[v]) + SumLen(e, vs \ {v})
\* the sum with the last variable left out
IsLocal_SixVars(e) == 0 = SumLen(e, EnvVars \ {"GOOGLE_CLOUD_PROJECT"})

IsLocal(e) == 0 = SumLen(e, EnvVars)

LogLevelDebug == 0
LogLevelInfo == 1
LogLevelWarn == 2
LogLevelError == 3
StatusOK == 200
StatusBadRequest == 400
StatusInternalServerError == 500

NilErr == <<>>
JsonContentType == <<"application/json; charset=utf-8">>
EOF == <<"EOF">>
ConnReset == <<"connection reset by peer">>
NilDeref == <<"runtime error: invalid memory address or nil pointer dereference">>
MakeSliceRange == <<"runtime error: makeslice: len out of range">>
SendFailed == <<"Could not send response to user: ">>

\* ----------------------------------------------------------------- inputs
Doc == <<"{", QUOTE, "a", QUOTE, ":", "1", "}">>
\* <<declared content length, bytes the client sends>>
RequestKinds == { <<Len(Doc), Doc>>, <<Len(Doc) + 1, Doc>>, <<-1, Doc>>,
                  <<0, <<>> >> }
WriteErrors == {NilErr, <<"test Error">>}
Codes == {StatusBadRequest, StatusInternalServerError}
Causes == {NilErr, <<"boom">>}
Messages == {<<>>, <<"m", QUOTE>>}
Formats == {<<"application/octet-stream">>}
Payloads == {<<"1", "2">>}
Objects == {Nil, GoInt(1), GoMap([k \in {<<"a">>} |-> GoStr(<<"b">>)]), Chan}
Targets == {GoStr(<<"old">>)}

NilCtx == <<"nil", 0>>
ReqCtx == <<"req", 1>>
UserCtxs == {<<"user", 1>>}

\* The model follows one exchange: the request r and the response w the
\* runtime hands to the handler, and every FunctionContext value the handler
\* has built for them.  origin is the history of derivations: for each
\* context value, the contexts returned by FuncCtx it was derived from.
VARIABLES build, env, isLocalDeployment, request, response, origin, loggers,
          out, trace, ret, TimeFieldFormat, other
vars == <<build, env, isLocalDeployment, request, response, origin, loggers,
          out, trace, ret, TimeFieldFormat, other>>

ctxs == DOMAIN origin

NoCtx == [SpanId |-> <<>>, spanIdLogField |-> <<>>, Logger |-> 0,
          Response |-> "nil", Request |-> "nil", Context |-> NilCtx,
          stackFrameLevel |-> 0]

NoRet == [op |-> "none", this |-> NoCtx, result |-> NoCtx,
          outcome |-> "return", panic |-> <<>>,
          err |-> NilErr, bytes |-> <<>>, target0 |-> Nil, target |-> Nil,
          code |-> 0, cause |-> NilErr, text |-> <<>>, format |-> <<>>,
          data |-> <<>>, object |-> Nil, werr |-> NilErr, pos0 |-> 0,
          n |-> 0, readErr |-> NilErr, before |-> {},
          ctx |-> NilCtx, method |-> "", level |-> 0, args |-> <<>>]

LocalEnv == [v \in EnvVars |-> <<>>]
DeployedEnv == [v \in EnvVars |-> IF v = "K_SERVICE" THEN <<"f">> ELSE <<>>]

NewRequest(cl, body) == [ContentLength |-> cl, all |-> body, pos |-> 0]
NewResponse ==
    [header |-> <<>>, wroteHeader |-> FALSE, status |-> 0, sent |-> <<>>,
     body |-> <<>>]

\* zerolog.TimeFieldFormat, a variable of package zerolog: RFC3339 until it
\* is assigned, and the constant FuncCtx assigns to it
TimeFormatRFC3339 == <<"2006-01-02T15:04:05Z07:00">>
TimeFormatUnix == <<>>

\* the exchange of another request, handled by another goroutine of the
\* process: its request and response, the contexts its handler has built and
\* the outcome of the handler's last call.  The names "r" and "w" in a
\* context are the handles of the context's own exchange.
Idle == [request |-> NewRequest(0, <<>>), response |-> NewResponse,
         origin |-> [c \in {} |-> {}], out |-> <<>>, trace |-> <<>>,
         ret |-> NoRet]
Current == [request |-> request, response |-> response, origin |-> origin,
            out |-> out, trace |-> trace, ret |-> ret]

Init ==
    /\ build \in Builds
    /\ env \in {LocalEnv, DeployedEnv}
    /\ isLocalDeployment = IsLocal(env)
    /\ \E k \in RequestKinds : request = NewRequest(k[1], k[2])
    /\ response = NewResponse
    /\ origin = [c \in {} |-> {}]
    /\ loggers = <<>>
    /\ out = <<>>
    /\ trace = <<>>
    /\ ret = NoRet
    /\ TimeFieldFormat = TimeFormatRFC3339
    /\ other = Idle

\* the handler is over once it has written the response's status or a call
\* has panicked
Finished == response.wroteHeader \/ ret.outcome = "panic"

\* shortid.MustGenerate(): the k-th id of the process, never empty
MustGenerate(k) == <<"i">> \o Itoa(k)

\* zerolog.New(os.Stdout).With()...Str("spanId", "["+spanId+"]").Logger(),
\* switched to the console writer in local mode
NewLogger(spanId, console) ==
    [spanId |-> <<"[">> \o spanId \o <<"]">>, console |-> console]

\* one line written by a zerolog event of logger number lg: the message, the
\* event's level, the frame count given to Caller (-1: no Caller), and what
\* the logger adds (its spanId field, its writer)
Line(lgs, lg, level, msg, caller) ==
    [level |-> level, msg |-> msg, caller |-> caller,
     spanId |-> lgs[lg].spanId, console |-> lgs[lg].console, logger |-> lg]

\* FuncCtx of package main (FunctionContext.go:17): takes a context.Context,
\* logs five sample lines and returns a context without Context, Request or
\* Response
MainCtx(spanId, lg) ==
    [SpanId |-> spanId,
     spanIdLogField |-> <<"[">> \o spanId \o <<"]", " ">>,
     Logger |-> lg, Response |-> "nil", Request |-> "nil",
     Context |-> NilCtx, stackFrameLevel |-> 0]

FuncCtxMain ==
    /\ build = "main"
    /\ Len(loggers) < MaxCalls
    /\ LET spanId == MustGenerate(Len(loggers) + 1)
           lgs == Append(loggers, NewLogger(spanId, FALSE))
           lg == Len(lgs)
           new == MainCtx(spanId, lg)
       IN /\ loggers' = lgs
          /\ out' = << Line(lgs, lg, "info", <<"Info Message">>, -1),
                       Line(lgs, lg, "error", <<"Error Message">>, -1),
                       Line(lgs, lg, "warn", <<"Warn Message">>, -1),
                       Line(lgs, lg, "debug", <<"Debug Message">>, -1),
                       Line(lgs, lg, "trace", <<"Trace Message">>, -1) >>
          /\ origin' = [c \in ctxs \cup {new} |-> IF c = new THEN {new} ELSE origin[c]]
          /\ ret' = [NoRet EXCEPT !.op = "FuncCtx", !.result = new, !.before = ctxs]
    /\ trace' = <<>>
    /\ TimeFieldFormat' = TimeFormatUnix
    /\ UNCHANGED <<build, env, isLocalDeployment, request, response, other>>

\* FuncCtx keeping the prefix in local mode too
NewCtx_AlwaysPrefix(spanId, lg) ==
    [SpanId |-> spanId,
     spanIdLogField |-> <<"[">> \o spanId \o <<"]", " ">>,
     Logger |-> lg, Response |-> "w", Request |-> "r", Context |-> ReqCtx,
     stackFrameLevel |-> IF build = "v2" THEN 1 ELSE 0]

\* the context FuncCtx(w, r) of package toolkit returns
NewCtx(spanId, lg) ==
    [SpanId |-> spanId,
     spanIdLogField |-> IF isLocalDeployment THEN <<>>
                        ELSE <<"[">> \o spanId \o <<"]", " ">>,
     Logger |-> lg, Response |-> "w", Request |-> "r", Context |-> ReqCtx,
     stackFrameLevel |-> IF build = "v2" THEN 1 ELSE 0]

\* FuncCtx keeping its logger in one variable of the package, which every
\* context points to
FuncCtx_SharedLogger ==
    /\ build \in {"v1", "v2"}
    /\ ~Finished
    /\ Len(loggers) < MaxCalls
    /\ LET spanId == MustGenerate(Len(loggers) + 1)
           new == NewCtx(spanId, Len(loggers) + 1)
       IN /\ loggers' = [i \in 1..(Len(loggers) + 1) |-> NewLogger(spanId, isLocalDeployment)]
          /\ origin' = [c \in ctxs \cup {new} |-> IF c = new THEN {new} ELSE origin[c]]
          /\ ret' = [NoRet EXCEPT !.op = "FuncCtx", !.result = new, !.before = ctxs]
    /\ out' = <<>>
    /\ trace' = <<>>
    /\ TimeFieldFormat' = TimeFormatUnix
    /\ UNCHANGED <<build, env, isLocalDeployment, request, response, other>>

FuncCtx ==
    /\ build \in {"v1", "v2"}
    /\ ~Finished
    /\ Len(loggers) < MaxCalls
    /\ LET spanId == MustGenerate(Len(loggers) + 1)
           new == NewCtx(spanId, Len(loggers) + 1)
       IN /\ loggers' = Append(loggers, NewLogger(spanId, isLocalDeployment))
          /\ origin' = [c \in ctxs \cup {new} |-> IF c = new THEN {new} ELSE origin[c]]
          /\ ret' = [NoRet EXCEPT !.op = "FuncCtx", !.result = new, !.before = ctxs]
    /\ out' = <<>>
    /\ trace' = <<>>
    /\ TimeFieldFormat' = TimeFormatUnix
    /\ UNCHANGED <<build, env, isLocalDeployment, request, response, other>>

\* WithCtx with the SpanId field left out of the struct literal
DerivedCtx_NoSpanId(this, ctx) ==
    [SpanId |-> <<>>,
     spanIdLogField |-> this.spanIdLogField,
     Logger |-> this.Logger, Response |-> this.Response,
     Request |-> this.Request, Context |-> ctx,
     stackFrameLevel |-> IF build = "v2" THEN 1 ELSE 0]

\* WithCtx copying the receiver's Context instead of taking its argument
DerivedCtx_KeepCtx(this, ctx) ==
    [SpanId |-> this.SpanId,
     spanIdLogField |-> this.spanIdLogField,
     Logger |-> this.Logger, Response |-> this.Response,
     Request |-> this.Request, Context |-> this.Context,
     stackFrameLevel |-> IF build = "v2" THEN 1 ELSE 0]

\* what this.WithCtx(ctx) returns
DerivedCtx(this, ctx) ==
    [SpanId |-> this.SpanId,
     spanIdLogField |-> this.spanIdLogField,
     Logger |-> this.Logger, Response |-> this.Response,
     Request |-> this.Request, Context |-> ctx,
     stackFrameLevel |-> IF build = "v2" THEN 1 ELSE 0]

WithCtx ==
    /\ build \in {"v1", "v2"}
    /\ ~Finished
    /\ \E this \in ctxs : \E ctx \in UserCtxs \cup {this.Context} :
         LET new == DerivedCtx(this, ctx)
         IN /\ origin' = [c \in ctxs \cup {new} |->
                            IF c = new
                            THEN origin[this] \cup (IF new \in ctxs THEN origin[new] ELSE {})
                            ELSE origin[c]]
            /\ ret' = [NoRet EXCEPT !.op = "WithCtx", !.this = this,
                         !.result = new, !.before = ctxs, !.ctx = ctx]
    /\ out' = <<>>
    /\ trace' = <<>>
    /\ UNCHANGED <<build, env, isLocalDeployment, loggers, request, response,
                   TimeFieldFormat, other>>

\* ------------------------------------------------------ request accessors
Min(a, b) == IF a < b THEN a ELSE b

\* the transport hands the body over in segments of this size
SegmentSize == 3

\* what one call Body.Read(p) may answer, len(p) = l, with avail bytes left in
\* the stream: <<bytes delivered, error>>.  A reader may deliver fewer bytes
\* than asked (here one segment, or all that fits), may report EOF together
\* with the last bytes or only on the next call, and may fail.
ReadOutcomes(avail, l) ==
    IF l = 0 THEN {<<0, NilErr>>} \cup (IF avail = 0 THEN {<<0, EOF>>} ELSE {})
    ELSE IF avail = 0 THEN {<<0, EOF>>, <<0, ConnReset>>}
    ELSE {<<n, NilErr>> : n \in {Min(SegmentSize, Min(avail, l)), Min(avail, l)}}
         \cup (IF avail <= l THEN {<<avail, EOF>>} ELSE {})
         \cup {<<0, ConnReset>>}

\* GetBody on request rq when Read answers o: make([]byte, ContentLength)
\* panics on a negative length; otherwise one Read fills a prefix of the
\* zeroed buffer
GetBodyRun(rq, o) ==
    IF rq.ContentLength < 0
    THEN [outcome |-> "panic", panic |-> MakeSliceRange, bytes |-> <<>>,
          err |-> NilErr, n |-> 0, rq |-> rq]
    ELSE [outcome |-> "return", panic |-> <<>>,
          bytes |-> SubSeq(rq.all, rq.pos + 1, rq.pos + o[1])
                    \o Zeros(rq.ContentLength - o[1]),
          err |-> o[2], n |-> o[1],
          rq |-> [rq EXCEPT !.pos = rq.pos + o[1]]]

Outcomes(rq) ==
    IF rq.ContentLength < 0 THEN {<<0, NilErr>>}
    ELSE ReadOutcomes(Len(rq.all) - rq.pos, rq.ContentLength)

\* the accessors use nothing of the context but its Request
GetBody ==
    /\ build \in {"v1", "v2"}
    /\ ~Finished
    /\ \E this \in ctxs : this.Request = "r"
    /\ \E o \in Outcomes(request) :
         LET b == GetBodyRun(request, o)
         IN /\ request' = b.rq
            /\ ret' = [NoRet EXCEPT !.op = "GetBody",
                         !.outcome = b.outcome, !.panic = b.panic,
                         !.bytes = b.bytes, !.err = b.err, !.n = b.n,
                         !.readErr = b.err, !.pos0 = request.pos]
    /\ out' = <<>>
    /\ trace' = <<>>
    /\ UNCHANGED <<build, env, isLocalDeployment, origin, loggers, response,
                   TimeFieldFormat, other>>

\* GetJsonBody deserializing whatever GetBody returned, read error or not
GetJsonBodyRun_IgnoreReadErr(rq, o, target0) ==
    LET b == GetBodyRun(rq, o)
        u == Unmarshal(b.bytes)
    IN IF b.outcome = "panic" THEN b @@ [target |-> target0]
       ELSE [b EXCEPT !.err = u.err]
            @@ [target |-> IF u.err = NilErr THEN u.v ELSE target0]

\* GetJsonBody dropping json.Unmarshal's error
GetJsonBodyRun_DropJsonErr(rq, o, target0) ==
    LET b == GetBodyRun(rq, o)
        u == Unmarshal(b.bytes)
    IN IF b.outcome = "panic" THEN b @@ [target |-> target0]
       ELSE IF b.err # NilErr THEN b @@ [target |-> target0]
       ELSE b @@ [target |-> IF u.err = NilErr THEN u.v ELSE target0]

\* GetJsonBody(result) with *result = target0 before the call
GetJsonBodyRun(rq, o, target0) ==
    LET b == GetBodyRun(rq, o)
        u == Unmarshal(b.bytes)
    IN IF b.outcome = "panic" THEN b @@ [target |-> target0]
       ELSE IF b.err # NilErr THEN b @@ [target |-> target0]
       ELSE [b EXCEPT !.err = u.err]
            @@ [target |-> IF u.err = NilErr THEN u.v ELSE target0]

GetJsonBody ==
    /\ build \in {"v1", "v2"}
    /\ ~Finished
    /\ \E this \in ctxs : this.Request = "r"
    /\ \E target0 \in Targets, o \in Outcomes(request) :
         LET b == GetBodyRun(request, o)
             j == GetJsonBodyRun(request, o, target0)
         IN /\ request' = j.rq
            /\ ret' = [NoRet EXCEPT !.op = "GetJsonBody",
                         !.outcome = j.outcome, !.panic = j.panic,
                         !.bytes = j.bytes, !.err = j.err, !.n = j.n,
                         !.readErr = b.err, !.pos0 = request.pos,
                         !.target0 = target0, !.target = j.target]
    /\ out' = <<>>
    /\ trace' = <<>>
    /\ UNCHANGED <<build, env, isLocalDeployment, origin, loggers, response,
                   TimeFieldFormat, other>>

\* --------------------------------------------------------------- logging
\* the frame count the leveled methods give to Caller; the earlier snapshot
\* has no Caller
CallerOf(this) == IF build = "v2" THEN this.stackFrameLevel ELSE -1

\* this.Info(message) / this.Errorf(format, args...) with the message formatted
Info(this, message) ==
    Line(loggers, this.Logger, "info", this.spanIdLogField \o message, CallerOf(this))
Errorf(this, message) ==
    Line(loggers, this.Logger, "error", this.spanIdLogField \o message, CallerOf(this))

\* this.Logger.Panic()...Msg(spanIdLogField + text): the line it logs; Msg
\* then panics with the same message
PanicMsg(this, text) == this.spanIdLogField \o text
PanicLine(this, text) ==
    Line(loggers, this.Logger, "panic", PanicMsg(this, text),
         IF build = "v2" THEN (this.stackFrameLevel - 1) + 1 ELSE -1)

\* the other leveled methods, the message already formatted
Debug(this, message) ==
    Line(loggers, this.Logger, "debug", this.spanIdLogField \o message, CallerOf(this))
Warn(this, message) ==
    Line(loggers, this.Logger, "warn", this.spanIdLogField \o message, CallerOf(this))
Error(this, message) ==
    Line(loggers, this.Logger, "error", this.spanIdLogField \o message, CallerOf(this))
Debugf(this, message) == Debug(this, message)
Infof(this, message) == Info(this, message)
Warnf(this, message) == Warn(this, message)

\* fmt.Sprintf(format, args...): each verb of the format is replaced by the
\* next argument; a verb without an argument prints %!v(MISSING), arguments
\* left over are reported after the text
Verbs == {"%s", "%v"}
RECURSIVE Sprintf(_, _)
Sprintf(format, args) ==
    IF format = <<>>
    THEN IF args = <<>> THEN <<>>
         ELSE <<"%!(EXTRA ">> \o Head(args) \o <<")">>
    ELSE IF Head(format) \in Verbs
         THEN (IF args = <<>> THEN <<"%!", Head(format), "(MISSING)">>
               ELSE Head(args))
              \o Sprintf(Tail(format), IF args = <<>> THEN <<>> ELSE Tail(args))
         ELSE <<Head(format)>> \o Sprintf(Tail(format), args)

\* the levels Log and Logf are called with: the four constants and a number
\* that is none of them
LogLevels == {LogLevelDebug, LogLevelInfo, LogLevelWarn, LogLevelError, 123123}
LogMessages == {<<"msg">>}
LogFormats == {<<"formatted ", "%s">>}
LogArgs == {<< <<"foo bar">> >>}
Shortcuts == {"Debug", "Info", "Warn", "Error", "Debugf", "Infof", "Warnf", "Errorf"}

\* the switch with the cases of Info and Warn exchanged
LevelEvent_InfoIsWarn(level) ==
    IF level = LogLevelDebug THEN "debug"
    ELSE IF level = LogLevelInfo THEN "warn"
    ELSE IF level = LogLevelWarn THEN "info"
    ELSE IF level = LogLevelError THEN "error"
    ELSE "nil"

\* the switch of Log and Logf: the event of the level, and no event (a nil
\* *zerolog.Event) for a level without a case
LevelEvent(level) ==
    IF level = LogLevelDebug THEN "debug"
    ELSE IF level = LogLevelInfo THEN "info"
    ELSE IF level = LogLevelWarn THEN "warn"
    ELSE IF level = LogLevelError THEN "error"
    ELSE "nil"

\* the switch with a default case that takes the debug event
LogRun_DefaultDebug(this, level, message) ==
    <<Line(loggers, this.Logger,
           IF LevelEvent(level) = "nil" THEN "debug" ELSE LevelEvent(level),
           this.spanIdLogField \o message, CallerOf(this))>>

\* the lines this.Log(level, message) writes; Logf the same with the message
\* formatted.  Ctx, Caller, Msg and Msgf do nothing on a nil event.
LogRun(this, level, message) ==
    IF LevelEvent(level) = "nil" THEN <<>>
    ELSE <<Line(loggers, this.Logger, LevelEvent(level),
                this.spanIdLogField \o message, CallerOf(this))>>

\* the lines a call of one of the eight leveled methods writes
ShortcutRun(this, method, message) ==
    IF method = "Debug" THEN <<Debug(this, message)>>
    ELSE IF method = "Info" THEN <<Info(this, message)>>
    ELSE IF method = "Warn" THEN <<Warn(this, message)>>
    ELSE IF method = "Error" THEN <<Error(this, message)>>
    ELSE IF method = "Debugf" THEN <<Debugf(this, message)>>
    ELSE IF method = "Infof" THEN <<Infof(this, message)>>
    ELSE IF method = "Warnf" THEN <<Warnf(this, message)>>
    ELSE <<Errorf(this, message)>>

\* Debug, Info, Warn, Error and their f variants
Shortcut ==
    /\ build \in {"v1", "v2"}
    /\ ~Finished
    /\ \E this \in ctxs, method \in Shortcuts :
         \E format \in (IF method \in {"Debug", "Info", "Warn", "Error"}
                         THEN LogMessages ELSE LogFormats) :
         \E args \in (IF method \in {"Debug", "Info", "Warn", "Error"}
                       THEN {<<>>} ELSE LogArgs) :
            /\ out' = ShortcutRun(this, method, Sprintf(format, args))
            /\ ret' = [NoRet EXCEPT !.op = "Shortcut", !.method = method,
                         !.this = this, !.text = format, !.args = args]
    /\ trace' = <<>>
    /\ UNCHANGED <<build, env, isLocalDeployment, origin, loggers, request, response,
                   TimeFieldFormat, other>>

Log ==
    /\ build \in {"v1", "v2"}
    /\ ~Finished
    /\ \E this \in ctxs, level \in LogLevels, message \in LogMessages :
            /\ out' = LogRun(this, level, message)
            /\ ret' = [NoRet EXCEPT !.op = "Log", !.this = this,
                         !.level = level, !.text = message]
    /\ trace' = <<>>
    /\ UNCHANGED <<build, env, isLocalDeployment, origin, loggers, request, response,
                   TimeFieldFormat, other>>

Logf ==
    /\ build \in {"v1", "v2"}
    /\ ~Finished
    /\ \E this \in ctxs, level \in LogLevels, format \in LogFormats, args \in LogArgs :
            /\ out' = LogRun(this, level, Sprintf(format, args))
            /\ ret' = [NoRet EXCEPT !.op = "Logf", !.this = this,
                         !.level = level, !.text = format, !.args = args]
    /\ trace' = <<>>
    /\ UNCHANGED <<build, env, isLocalDeployment, origin, loggers, request, response,
                   TimeFieldFormat, other>>

\* what the logger's writer puts on stdout for a line: the JSON writer a
\* document with the fields of the event; the console writer of local mode
\* the parts level, spanId, caller and message as text, and no spanId among
\* the fields printed after them (FieldsExclude)
Written(line) ==
    IF line.console
    THEN [text |-> <<line.level, " ">> \o line.spanId \o <<" ">> \o line.msg,
          fields |-> {}, message |-> line.msg]
    ELSE [text |-> <<>>,
          fields |-> {<<"level", <<line.level>> >>, <<"spanId", line.spanId>>,
                      <<"message", line.msg>>},
          message |-> line.msg]

\* ------------------------------------------------------- http.ResponseWriter
SetContentType(w, value) == [w EXCEPT !.header = value]
\* WriteHeader sends the status and the headers set so far, once
WriteHeader(w, code) ==
    IF w.wroteHeader THEN w
    ELSE [w EXCEPT !.wroteHeader = TRUE, !.status = code, !.sent = w.header]
\* Write(data) when the sink answers werr: nothing is written on an error
WriteBody(w, data, werr) ==
    IF werr # NilErr THEN w
    ELSE [WriteHeader(w, StatusOK) EXCEPT !.body = @ \o data]

\* ------------------------------------------------------- response writers
Push(this) == IF build = "v2"
              THEN [this EXCEPT !.stackFrameLevel = @ + 1] ELSE this

\* OkResponse always announcing JSON
OkResponseRun_JsonType(this0, w, format, data, werr) ==
    LET this == Push(this0)
        w1 == WriteHeader(SetContentType(w, JsonContentType), StatusOK)
        log == <<Info(this, <<"Finished processing the request">>)>>
    IN IF werr # NilErr
       THEN [w |-> w1, outcome |-> "panic",
             panic |-> PanicMsg(this, SendFailed \o werr),
             out |-> log \o <<PanicLine(this, SendFailed \o werr)>>,
             trace |-> <<"log", "header", "status", "write failed", "log">>]
       ELSE [w |-> WriteBody(w1, data, werr), outcome |-> "return", panic |-> <<>>,
             out |-> log,
             trace |-> <<"log", "header", "status", "body">>]

\* OkResponse writing the status before it sets the header
OkResponseRun_StatusFirst(this0, w, format, data, werr) ==
    LET this == Push(this0)
        w1 == SetContentType(WriteHeader(w, StatusOK), format)
        log == <<Info(this, <<"Finished processing the request">>)>>
    IN IF werr # NilErr
       THEN [w |-> w1, outcome |-> "panic",
             panic |-> PanicMsg(this, SendFailed \o werr),
             out |-> log \o <<PanicLine(this, SendFailed \o werr)>>,
             trace |-> <<"log", "status", "header", "write failed", "log">>]
       ELSE [w |-> WriteBody(w1, data, werr), outcome |-> "return", panic |-> <<>>,
             out |-> log,
             trace |-> <<"log", "status", "header", "body">>]

\* OkResponse(format, data) on response w whose Write answers werr
OkResponseRun(this0, w, format, data, werr) ==
    LET this == Push(this0)
        w1 == WriteHeader(SetContentType(w, format), StatusOK)
        log == <<Info(this, <<"Finished processing the request">>)>>
    IN IF werr # NilErr
       THEN [w |-> w1, outcome |-> "panic",
             panic |-> PanicMsg(this, SendFailed \o werr),
             out |-> log \o <<PanicLine(this, SendFailed \o werr)>>,
             trace |-> <<"log", "header", "status", "write failed", "log">>]
       ELSE [w |-> WriteBody(w1, data, werr), outcome |-> "return", panic |-> <<>>,
             out |-> log,
             trace |-> <<"log", "header", "status", "body">>]

\* the SpanId OkResponseJson puts in the envelope
EnvelopeSpanId(this) == IF build = "v2" THEN this.SpanId ELSE this.spanIdLogField

SerializeFailed == IF build = "v2" THEN <<"Could not serialize data: ">>
                   ELSE <<"Could not serialize object: ">>

SuccessResponse(spanId, object) ==
    << << <<"spanId">>, GoStr(spanId), FALSE, "string" >>,
       << <<"data">>, object, TRUE, "interface" >> >>

\* OkResponseJson logging the failed serialization at error level and going on
OkResponseJsonRun_GoesOn(this0, w, object, werr) ==
    LET this == Push(this0)
        m == MarshalStruct(SuccessResponse(EnvelopeSpanId(this), object))
        r == OkResponseRun(this, w, JsonContentType, m.bytes, werr)
    IN IF m.err # NilErr
       THEN [r EXCEPT !.out = <<Error(this, SerializeFailed \o m.err)>> \o @,
                      !.trace = <<"log">> \o @]
       ELSE r

OkResponseJsonRun(this0, w, object, werr) ==
    LET this == Push(this0)
        m == MarshalStruct(SuccessResponse(EnvelopeSpanId(this), object))
    IN IF m.err # NilErr
       THEN [w |-> w, outcome |-> "panic",
             panic |-> PanicMsg(this, SerializeFailed \o m.err),
             out |-> <<PanicLine(this, SerializeFailed \o m.err)>>,
             trace |-> <<"log">>]
       ELSE OkResponseRun(this, w, JsonContentType, m.bytes, werr)

\* ErrorResponse (earlier snapshot: the tag `json:"message", omitempty` names
\* the field and nothing else) / ErrorResponseStruct
ErrorResponse(spanId, errorCode, message) ==
    << << <<"spanId">>, GoStr(spanId), FALSE, "string" >>,
       << <<"errorCode">>, GoInt(errorCode), FALSE, "int" >>,
       << <<"message">>, GoStr(message), build = "v2", "string" >> >>

\* fmt.Sprintf of the line ErrResponse logs
Exception(errorCode, explanation) ==
    <<"Exception occured (Error code ">> \o Itoa(errorCode) \o <<") ", QUOTE>>
    \o explanation \o <<QUOTE>>

ErrResponseRun(this0, w, errorCode, err, explanation, werr) ==
    LET this == Push(this0)
        log == IF err # NilErr
               THEN <<Errorf(this, Exception(errorCode, explanation) \o <<": ">> \o err)>>
               ELSE <<Errorf(this, Exception(errorCode, explanation))>>
        m == MarshalStruct(ErrorResponse(this.SpanId, errorCode, explanation))
        w1 == SetContentType(w, JsonContentType)
        w2 == WriteHeader(w1, errorCode)
    IN IF build = "v1" /\ err = NilErr
       THEN \* err.Error() on a nil error, evaluated before Errorf is called
            [w |-> w, outcome |-> "panic", panic |-> NilDeref,
             out |-> <<>>, trace |-> <<>>]
       ELSE IF m.err # NilErr
       THEN [w |-> w1, outcome |-> "panic",
             panic |-> PanicMsg(this, <<"Could not serialize the error to JSON: ">> \o m.err),
             out |-> log \o <<PanicLine(this, <<"Could not serialize the error to JSON: ">> \o m.err)>>,
             trace |-> <<"log", "header", "log">>]
       ELSE IF werr # NilErr
       THEN [w |-> w2, outcome |-> "panic",
             panic |-> PanicMsg(this, SendFailed \o werr),
             out |-> log \o <<PanicLine(this, SendFailed \o werr)>>,
             trace |-> <<"log", "header", "status", "write failed", "log">>]
       ELSE [w |-> WriteBody(w2, m.bytes, werr), outcome |-> "return",
             panic |-> <<>>, out |-> log,
             trace |-> <<"log", "header", "status", "body">>]

FailResponseRun(this0, w, errorCode, explanation, werr) ==
    ErrResponseRun(Push(this0), w, errorCode, NilErr, explanation, werr)

OkResponse ==
    /\ build \in {"v1", "v2"}
    /\ ~Finished
    /\ \E this \in ctxs, format \in Formats, data \in Payloads, werr \in WriteErrors :
         LET r == OkResponseRun(this, response, format, data, werr)
         IN /\ response' = r.w
            /\ out' = r.out
            /\ trace' = r.trace
            /\ ret' = [NoRet EXCEPT !.op = "OkResponse", !.this = this,
                         !.outcome = r.outcome, !.panic = r.panic,
                         !.format = format, !.data = data, !.werr = werr]
    /\ UNCHANGED <<build, env, isLocalDeployment, origin, loggers, request,
                   TimeFieldFormat, other>>

OkResponseJson ==
    /\ build \in {"v1", "v2"}
    /\ ~Finished
    /\ \E this \in ctxs, object \in Objects, werr \in WriteErrors :
         LET r == OkResponseJsonRun(this, response, object, werr)
         IN /\ response' = r.w
            /\ out' = r.out
            /\ trace' = r.trace
            /\ ret' = [NoRet EXCEPT !.op = "OkResponseJson", !.this = this,
                         !.outcome = r.outcome, !.panic = r.panic,
                         !.object = object, !.werr = werr]
    /\ UNCHANGED <<build, env, isLocalDeployment, origin, loggers, request,
                   TimeFieldFormat, other>>

ErrResponse ==
    /\ build \in {"v1", "v2"}
    /\ ~Finished
    /\ \E this \in ctxs, errorCode \in Codes, err \in Causes,
          explanation \in Messages, werr \in WriteErrors :
         LET r == ErrResponseRun(this, response, errorCode, err, explanation, werr)
         IN /\ response' = r.w
            /\ out' = r.out
            /\ trace' = r.trace
            /\ ret' = [NoRet EXCEPT !.op = "ErrResponse", !.this = this,
                         !.outcome = r.outcome, !.panic = r.panic,
                         !.code = errorCode, !.cause = err,
                         !.text = explanation, !.werr = werr]
    /\ UNCHANGED <<build, env, isLocalDeployment, origin, loggers, request,
                   TimeFieldFormat, other>>

FailResponse ==
    /\ build \in {"v1", "v2"}
    /\ ~Finished
    /\ \E this \in ctxs, errorCode \in Codes, explanation \in Messages,
          werr \in WriteErrors :
         LET r == FailResponseRun(this, response, errorCode, explanation, werr)
         IN /\ response' = r.w
            /\ out' = r.out
            /\ trace' = r.trace
            /\ ret' = [NoRet EXCEPT !.op = "FailResponse", !.this = this,
                         !.outcome = r.outcome, !.panic = r.panic,
                         !.code = errorCode, !.text = explanation, !.werr = werr]
    /\ UNCHANGED <<build, env, isLocalDeployment, origin, loggers, request,
                   TimeFieldFormat, other>>

\* the library's frames on the stack at the statement that logged a line of
\* call op, the statement's own function included: the user calls op, a
\* writer may call another writer, and the lines below panic level are logged
\* in the leveled method the writer calls, the fatal ones in the writer itself
Nested(op, line) ==
    IF op \in {"Shortcut", "Log", "Logf"} THEN 0
    ELSE IF op = "FailResponse" THEN 1
    ELSE IF op = "OkResponseJson" /\ ~Contains(line.msg, SerializeFailed) THEN 1
    ELSE 0
LibraryFrames(op, line) ==
    IF op \in {"Shortcut", "Log", "Logf"} THEN 1
    ELSE 1 + Nested(op, line) + (IF line.level = "panic" THEN 0 ELSE 1)

Next == \/ FuncCtxMain \/ FuncCtx \/ WithCtx \/ GetBody \/ GetJsonBody
        \/ OkResponse \/ OkResponseJson \/ ErrResponse \/ FailResponse

Spec == Init /\ [][Next]_vars

\* a handler that builds contexts and logs through them
InitLog == Init /\ build \in {"v1", "v2"}
NextLog == FuncCtx \/ WithCtx \/ Shortcut \/ Log \/ Logf
SpecLog == InitLog /\ [][NextLog]_vars

\* the scheduler takes the processor from one handler and gives it to the
\* handler of the other exchange
Swap ==
    /\ other # Current
    /\ other' = Current
    /\ request' = other.request
    /\ response' = other.response
    /\ origin' = other.origin
    /\ out' = other.out
    /\ trace' = other.trace
    /\ ret' = other.ret
    /\ UNCHANGED <<build, env, isLocalDeployment, loggers, TimeFieldFormat>>

\* two handlers of the process, each with its exchange, run interleaved
InitTwo == Init /\ build \in {"v1", "v2"} /\ request.ContentLength = Len(Doc)
NextTwo == FuncCtx \/ WithCtx \/ Log \/ OkResponse \/ Swap
SpecTwo == InitTwo /\ [][NextTwo]_vars

\* the process started under every combination of the platform's variables
AllEnvs == [EnvVars -> {<<>>, <<"f">>}]
InitEnv ==
    /\ build \in {"v1", "v2"}
    /\ env \in AllEnvs
    /\ isLocalDeployment = IsLocal(env)
    /\ request = NewRequest(0, <<>>)
    /\ response = NewResponse
    /\ origin = [c \in {} |-> {}]
    /\ loggers = <<>>
    /\ out = <<>>
    /\ trace = <<>>
    /\ ret = NoRet
    /\ TimeFieldFormat = TimeFormatRFC3339
    /\ other = Idle
NextEnv == FuncCtx \/ WithCtx
SpecEnv == InitEnv /\ [][NextEnv]_vars

\* ================================================================ properties
Roots == {c \in ctxs : c \in origin[c]}

\* a Go value as it comes back from a JSON document decoded into an `any`
RECURSIVE Generic(_)
Generic(v) ==
    CASE v.t = "int" -> GoFloat(v.n)
      [] v.t = "map" -> GoMap([k \in DOMAIN v.m |-> Generic(v.m[k])])
      [] OTHER -> v

\* field k of a decoded JSON object, nil when absent
Field(v, k) == IF v.t = "map" /\ <<k>> \in DOMAIN v.m THEN v.m[<<k>>] ELSE Nil

Writers == {"OkResponse", "OkResponseJson", "ErrResponse", "FailResponse"}

\* the JSON documents among the buffers GetBody can return here
ValidDocs == {Doc}
DocValue == GoMap([k \in {<<"a">>} |-> GoFloat(1)])

\* C1: every context has a non-empty SpanId, and a context derived by any
\* chain of WithCtx calls has the SpanId of the FuncCtx context it started from.
C1_SpanIdStable ==
    \A c \in ctxs : /\ c.SpanId # <<>>
                    /\ \A r \in origin[c] : c.SpanId = r.SpanId

\* a second derivation in a chain, with two FuncCtx contexts around
C1_Witness ==
    /\ ret.op = "WithCtx"
    /\ ret.this \notin Roots
    /\ ret.result.Context # ReqCtx
    /\ Cardinality(Roots) >= 2

\* C2: after OkResponseJson(v) returns, the body decodes to an envelope whose
\* data equals v and whose spanId equals the context's SpanId, in local and
\* in deployed mode.
C2_JsonEnvelopeRoundTrip ==
    (ret.op = "OkResponseJson" /\ ret.outcome = "return") =>
        LET d == Unmarshal(response.body)
        IN /\ d.err = NilErr
           /\ Field(d.v, "data") = Generic(ret.object)
           /\ Field(d.v, "spanId") = GoStr(ret.this.SpanId)

\* C3: ErrResponse(code, err, msg), its write succeeding, sets the status to
\* code and writes a body that decodes to errorCode = code and message = msg,
\* whether err is nil or not.
C3_ErrEnvelope ==
    (ret.op = "ErrResponse" /\ ret.werr = NilErr) =>
        LET d == Unmarshal(response.body)
        IN /\ response.status = ret.code
           /\ d.err = NilErr
           /\ Field(d.v, "errorCode") = GoFloat(ret.code)
           /\ Field(d.v, "message") \in {GoStr(ret.text)} \cup
                  (IF ret.text = <<>> THEN {Nil} ELSE {})

\* C4: FailResponse(code, msg) returns normally when the write succeeds and
\* leaves the status, Content-Type and body of ErrResponse(code, nil, msg);
\* its log line ends with the message, with no cause after it.
C4_FailIsErrWithoutCause ==
    (ret.op = "FailResponse" /\ ret.werr = NilErr) =>
        LET d == Unmarshal(response.body)
        IN /\ ret.outcome = "return"
           /\ response.status = ret.code
           /\ response.sent = JsonContentType
           /\ d.err = NilErr
           /\ Field(d.v, "errorCode") = GoFloat(ret.code)
           /\ Len(out) = 1
           /\ out[1].msg = ret.this.spanIdLogField \o Exception(ret.code, ret.text)

\* C5: when the sink's Write fails (and the value given can be serialized),
\* each response writer panics with a message that contains "Could not send
\* response to user: " followed by the error's text.
C5_WriteFailureIsFatal ==
    (ret.op \in Writers /\ ret.werr # NilErr /\ Marshalable(ret.object)) =>
        /\ ret.outcome = "panic"
        /\ Contains(ret.panic, SendFailed \o ret.werr)

\* C6: when the first GetBody of a request whose body is as long as declared
\* returns no error, it returns the first ContentLength bytes of the body,
\* however many bytes the Read delivered.
C6_BodyIsComplete ==
    (/\ ret.op = "GetBody" /\ ret.outcome = "return" /\ ret.pos0 = 0
     /\ Len(request.all) >= request.ContentLength
     /\ ret.err = NilErr) =>
        ret.bytes = Take(request.all, request.ContentLength)

\* C7: when the stream holds fewer bytes than ContentLength, or Read returns
\* an error, GetBody returns an error.
C7_ShortBodyIsAnError ==
    (/\ ret.op = "GetBody" /\ ret.outcome = "return" /\ ret.pos0 = 0
     /\ (Len(request.all) < request.ContentLength \/ ret.readErr # NilErr)) =>
        ret.err # NilErr

C9_JsonBodyErrors ==
    (ret.op = "GetJsonBody" /\ ret.outcome = "return") =>
        IF ret.readErr # NilErr
        THEN ret.err = ret.readErr /\ ret.target = ret.target0
        ELSE /\ ret.err # NilErr <=> ret.bytes \notin ValidDocs
             /\ ret.err # NilErr => ret.target = ret.target0
             /\ ret.err = NilErr => ret.target # ret.target0

\* the read failed with all bytes delivered: the error comes back, the
\* target keeps its value
C9_Witness ==
    /\ ret.op = "GetJsonBody" /\ ret.outcome = "return"
    /\ ret.readErr = EOF /\ ret.n = Len(Doc)
    /\ ret.err = EOF /\ ret.target = ret.target0

\* C10: GetBody and GetJsonBody always return, whatever the declared content
\* length (zero, unknown, larger than the body).
C10_AccessorsReturn ==
    ret.op \in {"GetBody", "GetJsonBody"} => ret.outcome = "return"


\* ------------------------------------------------------------ C11 .. C20
KnownLevels == {LogLevelDebug, LogLevelInfo, LogLevelWarn, LogLevelError}

\* the tag a context's logger is built with, and the prefix made of it
Tag(c) == <<"[">> \o c.SpanId \o <<"]">>
Prefix(c) == Tag(c) \o <<" ">>

\* how often sub occurs in s
Count(s, sub) ==
    Cardinality({i \in 1..(Len(s) - Len(sub) + 1) : SubSeq(s, i, i + Len(sub) - 1) = sub})

LogOps == {"Shortcut", "Log", "Logf"}

\* C11: Log and Logf called with a level that is none of the four constants
\* return and emit exactly one line, at debug severity, that contains the
\* (formatted) message.
C11_UnknownLevelIsDebug ==
    (ret.op \in {"Log", "Logf"} /\ ret.level \notin KnownLevels) =>
        /\ ret.outcome = "return"
        /\ Len(out) = 1
        /\ out[1].level = "debug"
        /\ Contains(out[1].msg, Sprintf(ret.text, ret.args))

\* C12: WithCtx(h) returns a context whose Context is h and whose SpanId,
\* Logger, Request, Response and log prefix are the receiver's; the receiver
\* and every other context are still what they were.
C12_WithCtxCopies ==
    ret.op = "WithCtx" =>
        /\ ret.result.Context = ret.ctx
        /\ ret.result.SpanId = ret.this.SpanId
        /\ ret.result.Logger = ret.this.Logger
        /\ ret.result.Request = ret.this.Request
        /\ ret.result.Response = ret.this.Response
        /\ ret.result.spanIdLogField = ret.this.spanIdLogField
        /\ ret.this \in ctxs
        /\ ret.before \subseteq ctxs
        /\ ctxs = ret.before \cup {ret.result}

\* WithCtx has put another Context in the place of the receiver's
C12_Witness ==
    /\ ret.op = "WithCtx"
    /\ ret.ctx # ret.this.Context
    /\ ret.result # ret.this

\* C13: a context returned by FuncCtx has a Logger and a Context that are not
\* nil, its Context is the request's, and its Request and Response are the
\* handles FuncCtx was given.
C13_FuncCtxIsComplete ==
    ret.op = "FuncCtx" =>
        /\ ret.result.Logger \in 1..Len(loggers)
        /\ ret.result.Context # NilCtx
        /\ ret.result.Context = ReqCtx
        /\ ret.result.Request = "r"
        /\ ret.result.Response = "w"

\* C14: OkResponse(contentType, data) that returns leaves the response with
\* status 200, the Content-Type contentType (set and sent) and the body data.
C14_OkResponseWritesData ==
    (ret.op = "OkResponse" /\ ret.outcome = "return") =>
        /\ response.wroteHeader
        /\ response.status = StatusOK
        /\ response.header = ret.format
        /\ response.sent = ret.format
        /\ response.body = ret.data

C14_Witness ==
    /\ ret.op = "OkResponse"
    /\ ret.outcome = "return"
    /\ ret.data # <<>>
    /\ ret.format # JsonContentType

\* C15 as stated: every line of Debug/Info/Warn/Error, Log, Logf and the f
\* variants carries the context's id in exactly one form: in deployed mode as
\* the structured field spanId and not as a prefix of the message, in local
\* mode inline and not as a structured field.
C15_Original ==
    ret.op \in LogOps =>
        \A i \in 1..Len(out) :
            LET l == Written(out[i])
                structured == <<"spanId", Tag(ret.this)>> \in l.fields
                inline == Contains(l.text, Tag(ret.this))
                          \/ Contains(l.message, Tag(ret.this))
            IN IF isLocalDeployment THEN inline /\ ~structured
               ELSE structured /\ ~inline

\* C15: every line of Debug/Info/Warn/Error, Log, Logf and the f variants
\* carries the context's id.  In deployed mode the line has it twice: as the
\* structured field spanId and as the prefix "[id] " of the message.  In
\* local mode it has it once: the console line shows the tag before the
\* message, the message has no prefix and there is no spanId field.
C15_IdOnEveryLine ==
    ret.op \in LogOps =>
        \A i \in 1..Len(out) :
            LET l == Written(out[i])
                text == Sprintf(ret.text, ret.args)
            IN IF isLocalDeployment
               THEN /\ l.message = text
                    /\ Count(l.text, Tag(ret.this)) = 1
                    /\ \A f \in l.fields : f[1] # "spanId"
               ELSE /\ l.message = Prefix(ret.this) \o text
                    /\ <<"spanId", Tag(ret.this)>> \in l.fields

\* a formatted line in deployed mode and a plain one in local mode
C15_Witness ==
    /\ ret.op = "Logf"
    /\ Len(out) = 1
    /\ ~isLocalDeployment
    /\ ret.this \notin Roots


\* C16: the cause given to ErrResponse does not reach the client: with the
\* same context, code, message and sink, every other err leaves the same
\* status, headers and body on the response.
C16_CauseStaysInTheLog ==
    ret.op = "ErrResponse" =>
        \A err \in Causes :
            ErrResponseRun(ret.this, NewResponse, ret.code, err, ret.text, ret.werr).w
                = response

\* C17: the envelope ErrResponse and FailResponse write has no message field
\* when the user message is empty, and the message field with the given text
\* otherwise.
C17_EmptyMessageIsOmitted ==
    (ret.op \in {"ErrResponse", "FailResponse"} /\ ret.outcome = "return") =>
        LET d == Unmarshal(response.body)
        IN /\ d.err = NilErr
           /\ d.v.t = "map"
           /\ IF ret.text = <<>> THEN <<"message">> \notin DOMAIN d.v.m
              ELSE Field(d.v, "message") = GoStr(ret.text)

\* C18: the process is in local mode exactly when every one of the seven
\* variables is empty or unset, and every context built is in the mode of the
\* process: with one variable set, each has the prefix and a JSON logger.
C18_LocalIffNoVariable ==
    LET none == \A v \in EnvVars : env[v] = <<>>
    IN /\ isLocalDeployment <=> none
       /\ \A c \in ctxs : /\ c.spanIdLogField = <<>> <=> none
                          /\ ~none => c.spanIdLogField = Prefix(c)
                          /\ loggers[c.Logger].console <=> none

\* contexts built with only the last of the variables set
C18_Witness ==
    /\ Cardinality(ctxs) >= 2
    /\ {v \in EnvVars : env[v] # <<>>} = {"GOOGLE_CLOUD_PROJECT"}

\* C19: in one call of a response writer the status is written at most once
\* and the body at most once; the call's log line comes first, the
\* Content-Type header is set before the status is written and the status
\* before the body, and the header is never set after the status.
C19_WriteOrder ==
    ret.op \in Writers =>
        /\ Count(trace, <<"status">>) <= 1
        /\ Count(trace, <<"body">>) <= 1
        /\ trace # <<>> => trace[1] = "log"
        /\ \A j \in 1..Len(trace) :
             /\ trace[j] = "status" => \E i \in 1..(j - 1) : trace[i] = "header"
             /\ trace[j] = "body" => \E i \in 1..(j - 1) : trace[i] = "status"
             /\ trace[j] = "header" => \A i \in 1..(j - 1) : trace[i] \notin {"status", "body"}
        /\ response.wroteHeader <=> Count(trace, <<"status">>) = 1
        /\ response.body # <<>> => Count(trace, <<"body">>) = 1
        /\ response.wroteHeader => response.sent = response.header

\* a writer that went through all four events
C19_Witness ==
    /\ ret.op = "OkResponseJson"
    /\ trace = <<"log", "header", "status", "body">>
    /\ response.body # <<>>

Finishing(line) == Contains(line.msg, <<"Finished processing the request">>)

\* C20: when the envelope cannot be serialized, OkResponseJson and
\* ErrResponse panic before a status or a body reaches the sink, and
\* OkResponseJson before the line "Finished processing the request".
C20_SerializeFailureWritesNothing ==
    /\ (ret.op = "OkResponseJson" /\ ~Marshalable(ret.object)) =>
          /\ ret.outcome = "panic"
          /\ Contains(ret.panic, SerializeFailed)
          /\ ~response.wroteHeader
          /\ response.body = <<>>
          /\ \A i \in 1..Len(out) : ~Finishing(out[i])
    /\ (/\ ret.op \in {"ErrResponse", "FailResponse"}
        /\ Contains(ret.panic, <<"Could not serialize the error to JSON: ">>)) =>
          /\ ret.outcome = "panic"
          /\ ~response.wroteHeader
          /\ response.body = <<>>

\* OkResponseJson given a value json.Marshal refuses
C20_Witness ==
    /\ ret.op = "OkResponseJson"
    /\ ret.object = Chan
    /\ ret.outcome = "panic"
    /\ Len(out) = 1


\* ------------------------------------------------------------ C21 .. C24
\* C21: ErrResponse(code, err, msg) logs exactly one line at error level, and
\* logs it before it touches the response; the line contains the code and the
\* message, and the text of err exactly when err is not nil.
C21_ErrResponseLogsOnce ==
    ret.op = "ErrResponse" =>
        /\ Cardinality({i \in 1..Len(out) : out[i].level = "error"}) = 1
        /\ out[1].level = "error"
        /\ trace[1] = "log"
        /\ Contains(out[1].msg, Itoa(ret.code))
        /\ Contains(out[1].msg, <<QUOTE>> \o ret.text \o <<QUOTE>>)
        /\ IF ret.cause = NilErr
           THEN out[1].msg = ret.this.spanIdLogField \o Exception(ret.code, ret.text)
           ELSE Contains(out[1].msg, ret.cause)

\* C22: the frame count given to Caller on every line a call logs is the
\* number of the library's frames between the logging statement and the
\* user's call: for the leveled methods called directly, for the lines of
\* nested writers and for the fatal lines.
C22_CallerIsTheUser ==
    ret.op \in Writers \cup LogOps =>
        \A i \in 1..Len(out) : out[i].caller = LibraryFrames(ret.op, out[i])

NameOf(level, f) ==
    IF level = LogLevelDebug THEN (IF f THEN "Debugf" ELSE "Debug")
    ELSE IF level = LogLevelInfo THEN (IF f THEN "Infof" ELSE "Info")
    ELSE IF level = LogLevelWarn THEN (IF f THEN "Warnf" ELSE "Warn")
    ELSE (IF f THEN "Errorf" ELSE "Error")

\* C23: called with one of the four level constants, Log(level, m) emits the
\* line the level's shortcut emits for m, and Logf(level, f, args...) the line
\* of the shortcut's f variant: same severity, same message, same tagging.
C23_LogIsTheShortcut ==
    (ret.op \in {"Log", "Logf"} /\ ret.level \in KnownLevels) =>
        /\ Len(out) = 1
        /\ out = ShortcutRun(ret.this, NameOf(ret.level, ret.op = "Logf"),
                             Sprintf(ret.text, ret.args))

\* Logf at warn level in deployed mode
C23_Witness ==
    /\ ret.op = "Logf"
    /\ ret.level = LogLevelWarn
    /\ Len(out) = 1
    /\ out[1].level = "warn"
    /\ ~isLocalDeployment


\* C24: contexts built for different requests share no mutable state.  A step
\* of one handler leaves the other exchange as it was: its request, its
\* response, its contexts with their SpanId, Context, Request and Response,
\* and its output; the logger of every context stays the logger it was, and
\* no two contexts of different exchanges have the same logger.  The writes
\* to process-wide variables store one value: every assignment to
\* zerolog.TimeFieldFormat stores TimeFormatUnix, so a handler that has built
\* a context never sees another value, and the local-mode flag keeps the
\* value of start-up.
C24_NoSharedState ==
    [][ /\ \/ other' = other
           \/ other' = Current /\ Current' = other
        /\ \A c \in ctxs \cup DOMAIN other.origin :
              /\ c.Logger \in 1..Len(loggers)
              /\ loggers'[c.Logger] = loggers[c.Logger]
        /\ \A c \in ctxs, d \in DOMAIN other.origin : c.Logger # d.Logger
        /\ TimeFieldFormat' \in {TimeFieldFormat, TimeFormatUnix}
        /\ loggers # <<>> => TimeFieldFormat = TimeFormatUnix /\ TimeFieldFormat' = TimeFormatUnix
        /\ isLocalDeployment' = isLocalDeployment
        /\ isLocalDeployment = IsLocal(env) ]_vars

\* both handlers have built a context, one has logged through its context
\* and the other has finished its exchange since
C24_Witness ==
    /\ ctxs # {}
    /\ DOMAIN other.origin # {}
    /\ ret.op = "OkResponse"
    /\ response.wroteHeader
    /\ other.ret.op = "Log"
    /\ ~other.response.wroteHeader

====
